---- MODULE Spec2Model ----
(***************************************************************************)
(* postgresql_setting: an Ansible module that manages one PostgreSQL       *)
(* configuration parameter (GUC) through ALTER SYSTEM.                     *)
(*                                                                         *)
(* Two versions of the module are in the repository and both are modelled: *)
(*   variant = "guc"     src/postgresql_setting.py                         *)
(*   variant = "option"  src/library/postgresql_setting.py                 *)
(*                                                                         *)
(* An invocation is a process that connects and then executes SQL          *)
(* statements one at a time; every cursor.execute is one step, so that two *)
(* invocations against the same instance interleave statement by           *)
(* statement.  The instance is the part of PostgreSQL the statements read  *)
(* and write: the pg_settings rows (context, boot_val, reset_val), the     *)
(* value current_setting() shows, and the override ALTER SYSTEM persists   *)
(* in postgresql.auto.conf, which the server applies only when it reloads  *)
(* its configuration (DOCUMENTATION, src/postgresql_setting.py:14-17).     *)
(***************************************************************************)
EXTENDS Naturals, FiniteSets, Sequences, TLC

\* The invocations that may run at the same time.
Procs == {"host1", "host2"}

(*************************** the instance *********************************)

\* Rows of pg_settings.  "no_such_guc" is a name without a row.
Catalog == {"work_mem", "block_size"}
Gucs == Catalog \cup {"no_such_guc"}

\* pg_settings.context: block_size is a preset parameter.
context == [g \in Catalog |-> IF g = "block_size" THEN "internal" ELSE "user"]

\* pg_settings.boot_val, in the parameter's base unit.
boot_val == [g \in Catalog |-> IF g = "block_size" THEN "8192" ELSE "4096"]

NoOverride == "<none>"
Invalid == "<invalid>"

\* What a playbook may pass as value (value has default "").
Values == {"8MB", "4096kB", "bogus"}

\* The server's input conversion of a parameter value: a memory size is
\* parsed to the base unit (kB); what does not parse is rejected.
Canon(v) ==
  CASE v = "8MB" -> "8192"
    [] v = "4096kB" -> "4096"
    [] v = "4MB" -> "4096"
    [] v = "4096" -> "4096"
    [] v = "8192" -> "8192"
    [] OTHER -> Invalid

\* The server's output conversion, as SHOW and current_setting() print it:
\* the largest unit that divides the value.
Show(c) ==
  CASE c = "4096" -> "4MB"
    [] c = "8192" -> "8MB"
    [] OTHER -> c

VARIABLES
  variant,     \* which of the two module files is run
  auto_conf,   \* per row: the override persisted by ALTER SYSTEM, or NoOverride
  reset_val,   \* per row: pg_settings.reset_val of the running server
  pc,          \* per invocation: the statement it is about to execute; "done"
               \* once it has ended and the server has not reloaded since
  params,      \* per invocation: module.params and module.check_mode
  changed,     \* per invocation: the local variable changed of main()
  guard,       \* per invocation: what the read of do_guc_set/do_guc_reset returned
  default_value, \* per invocation: what option_get_default_value returned
  result,      \* per invocation: what exit_json / fail_json reported
  stmts,       \* per invocation: statements executed so far
  writes,      \* per invocation: ALTER SYSTEM statements issued so far
  raised,      \* per invocation: the exception a statement raised
  mutated,     \* per invocation: one of its own steps changed the instance
  prev,        \* the result of the run that the current run repeats
  last_writer, \* the invocation whose ALTER SYSTEM succeeded last
  raced        \* two invocations passed their read before either wrote

vars == <<variant, auto_conf, reset_val, pc, params, changed, guard, default_value,
          result, stmts, writes, raised, mutated, prev, last_writer, raced>>


(************************ statements of the instance **********************)

NoError == [at |-> 0, text |-> ""]

\* Any statement can fail for a reason outside the module (connection lost,
\* permission denied: only superusers can run ALTER SYSTEM).
Faults == {"server closed the connection unexpectedly"}

\* A wrong is_guc_configurable: the context of the row is not looked at.
is_guc_configurable_any_context(g) == g \in Catalog

\* SELECT EXISTS (... WHERE context <> 'internal' AND name = %s)
is_guc_configurable(g) == g \in Catalog /\ context[g] # "internal"

\* SELECT EXISTS (... WHERE boot_val = reset_val AND name = %s)
is_guc_default(g) == g \in Catalog /\ boot_val[g] = reset_val[g]

\* current_setting(%s): the text SHOW prints; it raises for an unknown name.
current_setting(g) == IF g \in Catalog THEN Show(reset_val[g]) ELSE Invalid

current_setting_error(g) ==
  IF g \in Catalog THEN "" ELSE "unrecognized configuration parameter"

\* SELECT current_setting(%s) = %s : equality of two texts.
guc_matches(g, v) == current_setting(g) = v

\* SELECT EXISTS (... WHERE context = 'internal' AND name = '%s')
option_ispreset(g) == g \in Catalog /\ context[g] = "internal"

\* SELECT name FROM pg_settings WHERE name = '%s'; rowcount > 0
option_exists(g) == g \in Catalog

\* SELECT boot_val, reset_val ...; compared in Python; no row gives False.
option_isdefault(g) == IF g \in Catalog THEN boot_val[g] = reset_val[g] ELSE FALSE

\* SELECT boot_val FROM pg_settings WHERE name = '%s'; fetchone()[0]
option_get_default_value(g) == IF g \in Catalog THEN boot_val[g] ELSE Invalid

\* SELECT current_setting('%s') = '%s'
option_matches(g, v) == current_setting(g) = v

\* The error ALTER SYSTEM SET g TO 'v' ends with, "" when it succeeds.
alter_system_set_error(g, v) ==
  CASE g \notin Catalog -> "unrecognized configuration parameter"
    [] g \in Catalog /\ context[g] = "internal" -> "parameter cannot be changed"
    [] g \in Catalog /\ context[g] # "internal" /\ Canon(v) = Invalid ->
         "invalid value for parameter"
    [] OTHER -> ""

\* The error ALTER SYSTEM RESET g ends with, "" when it succeeds.
alter_system_reset_error(g) ==
  CASE g \notin Catalog -> "unrecognized configuration parameter"
    [] g \in Catalog /\ context[g] = "internal" -> "parameter cannot be changed"
    [] OTHER -> ""

\* A wrong ALTER SYSTEM SET: an entry that is there already is kept.
alter_system_set_keep_existing(g, v) ==
  IF auto_conf[g] = NoOverride THEN [auto_conf EXCEPT ![g] = v] ELSE auto_conf

\* ALTER SYSTEM SET g TO 'v' replaces the row's entry of postgresql.auto.conf,
\* whatever the entry was; the running server's values stay as they are.
alter_system_set(g, v) == [auto_conf EXCEPT ![g] = v]

\* ALTER SYSTEM RESET g removes the entry.
alter_system_reset(g) == [auto_conf EXCEPT ![g] = NoOverride]

\* What the server gives a row when it reads its configuration files.
Effective(g) == IF auto_conf[g] = NoOverride THEN boot_val[g] ELSE Canon(auto_conf[g])

(***************************** an invocation *******************************)

\* module.params (guc/option, value, state) and module.check_mode.  value is
\* read only when state is "present"; with state "absent" it has its default.
Params ==
  { [guc |-> g, value |-> v, state |-> "present", check_mode |-> c] :
      g \in Gucs, v \in Values, c \in BOOLEAN }
  \cup
  { [guc |-> g, value |-> "", state |-> "absent", check_mode |-> c] :
      g \in Gucs, c \in BOOLEAN }

NoParams == [guc |-> "no_such_guc", value |-> "", state |-> "absent", check_mode |-> FALSE]
NoResult == [rc |-> "none", changed |-> FALSE, msg |-> <<>>, warned |-> FALSE]
NoPrev == [rc |-> "none", check_mode |-> FALSE, changed |-> FALSE]
NoWriter == ""

\* A boolean a read returned, kept as text ("" before the read).
Text(b) == IF b THEN "true" ELSE "false"

Init ==
  /\ variant \in {"guc", "option"}
  /\ auto_conf \in { [g \in Catalog |-> IF g = "work_mem" THEN o ELSE NoOverride] :
                       o \in {NoOverride, "8MB"} }
  /\ reset_val = [g \in Catalog |-> Effective(g)]
  /\ pc = [p \in Procs |-> "idle"]
  /\ params = [p \in Procs |-> NoParams]
  /\ changed = [p \in Procs |-> FALSE]
  /\ guard = [p \in Procs |-> ""]
  /\ default_value = [p \in Procs |-> ""]
  /\ result = [p \in Procs |-> NoResult]
  /\ stmts = [p \in Procs |-> 0]
  /\ writes = [p \in Procs |-> 0]
  /\ raised = [p \in Procs |-> NoError]
  /\ mutated = [p \in Procs |-> FALSE]
  /\ prev = NoPrev
  /\ last_writer = NoWriter
  /\ raced = FALSE

\* The process ends: module.exit_json / module.fail_json raise SystemExit.
Return(p, r) ==
  /\ pc' = [pc EXCEPT ![p] = "done"]
  /\ result' = [result EXCEPT ![p] = r]

exit_json(p, ch, w) ==
  Return(p, [rc |-> "exit", changed |-> ch, msg |-> <<>>, warned |-> w])

\* fail_json is given msg and no changed.
fail_json(p, m) ==
  Return(p, [rc |-> "fail", changed |-> FALSE, msg |-> m, warned |-> FALSE])

\* A wrong handler: the exception is swallowed and main() falls through to
\* module.exit_json(changed=changed).
main_except_swallowed(p, e) ==
  /\ raised' = [raised EXCEPT ![p] = [at |-> stmts[p] + 1, text |-> e]]
  /\ exit_json(p, changed[p], FALSE)

\* except Exception as e: fail_json(msg="Database query failed: %s" % e)
main_except(p, e) ==
  /\ raised' = [raised EXCEPT ![p] = [at |-> stmts[p] + 1, text |-> e]]
  /\ fail_json(p, <<"Database query failed", e>>)

Goto(p, l) ==
  /\ pc' = [pc EXCEPT ![p] = l]
  /\ UNCHANGED <<result, raised>>

\* cursor.execute of one more statement.
Execute(p) == stmts' = [stmts EXCEPT ![p] = @ + 1]

\* A wrong main(): module.check_mode is not looked at.
Dispatch_ignoring_check_mode(p, check, reset, set) ==
  IF params[p].state = "absent" THEN reset ELSE set

\* Where main() goes once the parameter is known to be configurable.
Dispatch(p, check, reset, set) ==
  IF params[p].check_mode THEN check
  ELSE IF params[p].state = "absent" THEN reset ELSE set

WriteSteps == {"do_guc_reset_execute", "do_guc_set_execute",
               "option_reset_default", "option_reset_execute", "option_set_execute"}

\* Bookkeeping of a step of p that left the instance as it was.
ReadOnly == UNCHANGED <<variant, auto_conf, reset_val, writes, mutated, prev,
                        last_writer, raced>>

\* Bookkeeping of an ALTER SYSTEM of p that succeeded.
Wrote(p) ==
  /\ writes' = [writes EXCEPT ![p] = @ + 1]
  /\ mutated' = [mutated EXCEPT ![p] = @ \/ auto_conf' # auto_conf]
  /\ last_writer' = p
  /\ raced' = (raced \/ \E q \in Procs \ {p} :
                 pc[q] \in WriteSteps /\ params[q].guc = params[p].guc)
  /\ UNCHANGED <<variant, reset_val, prev>>

\* Bookkeeping of an ALTER SYSTEM of p that failed.
WriteFailed(p) ==
  /\ writes' = [writes EXCEPT ![p] = @ + 1]
  /\ UNCHANGED <<variant, auto_conf, reset_val, mutated, prev, last_writer, raced>>

\* A new invocation, with any parameters.
Start(p) ==
  /\ pc[p] \in {"idle", "done"}
  /\ \E a \in Params : params' = [params EXCEPT ![p] = a]
  /\ pc' = [pc EXCEPT ![p] = "connect"]
  /\ changed' = [changed EXCEPT ![p] = FALSE]
  /\ guard' = [guard EXCEPT ![p] = ""]
  /\ default_value' = [default_value EXCEPT ![p] = ""]
  /\ result' = [result EXCEPT ![p] = NoResult]
  /\ stmts' = [stmts EXCEPT ![p] = 0]
  /\ writes' = [writes EXCEPT ![p] = 0]
  /\ raised' = [raised EXCEPT ![p] = NoError]
  /\ mutated' = [mutated EXCEPT ![p] = FALSE]
  /\ prev' = NoPrev
  /\ raced' = FALSE
  /\ last_writer' = NoWriter
  /\ UNCHANGED <<variant, auto_conf, reset_val>>

\* The play is run again with no reload since the first run ended: the same
\* guc, state and value, in either mode.  prev keeps what the first run
\* reported, until the server reloads.
Rerun(p) ==
  /\ pc[p] = "done"
  /\ \E c \in BOOLEAN : params' = [params EXCEPT ![p].check_mode = c]
  /\ prev' = [rc |-> result[p].rc, check_mode |-> params[p].check_mode,
              changed |-> result[p].changed]
  /\ pc' = [pc EXCEPT ![p] = "connect"]
  /\ changed' = [changed EXCEPT ![p] = FALSE]
  /\ guard' = [guard EXCEPT ![p] = ""]
  /\ default_value' = [default_value EXCEPT ![p] = ""]
  /\ result' = [result EXCEPT ![p] = NoResult]
  /\ stmts' = [stmts EXCEPT ![p] = 0]
  /\ writes' = [writes EXCEPT ![p] = 0]
  /\ raised' = [raised EXCEPT ![p] = NoError]
  /\ mutated' = [mutated EXCEPT ![p] = FALSE]
  /\ raced' = FALSE
  /\ last_writer' = NoWriter
  /\ UNCHANGED <<variant, auto_conf, reset_val>>

\* psycopg2.connect, autocommit, cursor; any exception ends the run.
main_connect(p) ==
  /\ pc[p] = "connect"
  /\ \/ Goto(p, IF variant = "guc" THEN "is_guc_configurable" ELSE "option_ispreset")
     \/ \E f \in Faults :
          /\ fail_json(p, <<"unable to connect to database", f>>)
          /\ UNCHANGED raised
  /\ UNCHANGED <<changed, guard, default_value, stmts, params>>
  /\ ReadOnly

(******************* src/postgresql_setting.py: main ***********************)

\* if is_guc_configurable(cursor, guc): ... else: module.warn(...)
main_is_guc_configurable(p) ==
  /\ variant = "guc"
  /\ pc[p] = "is_guc_configurable"
  /\ Execute(p)
  /\ \/ \E f \in Faults : main_except(p, f)
     \/ /\ is_guc_configurable(params[p].guc)
        /\ Goto(p, Dispatch(p, "check_mode", "do_guc_reset", "do_guc_set"))
     \/ /\ ~is_guc_configurable(params[p].guc)
        /\ exit_json(p, changed[p], TRUE)
        /\ UNCHANGED raised
  /\ UNCHANGED <<changed, guard, default_value, params>>
  /\ ReadOnly

\* A wrong check mode: the "not" is missing.
check_mode_changed_not_negated(b) == b

\* changed = not is_guc_default(cursor, guc) / not guc_matches(cursor, guc, value)
check_mode_changed(b) == ~b

\* if module.check_mode: changed = not <read>; module.exit_json(changed=changed)
main_check_mode(p) ==
  /\ variant = "guc"
  /\ pc[p] = "check_mode"
  /\ Execute(p)
  /\ \/ /\ \E f \in Faults : main_except(p, f)
        /\ UNCHANGED <<changed, guard>>
     \/ LET g == params[p].guc
            b == IF params[p].state = "absent"
                 THEN is_guc_default(g) ELSE guc_matches(g, params[p].value)
        IN /\ guard' = [guard EXCEPT ![p] = Text(b)]
           /\ changed' = [changed EXCEPT ![p] = check_mode_changed(b)]
           /\ exit_json(p, check_mode_changed(b), FALSE)
           /\ UNCHANGED raised
  /\ UNCHANGED <<default_value, params>>
  /\ ReadOnly

\* do_guc_reset: if not is_guc_default(cursor, guc): ... else: return False
do_guc_reset(p) ==
  /\ variant = "guc"
  /\ pc[p] = "do_guc_reset"
  /\ Execute(p)
  /\ \/ /\ \E f \in Faults : main_except(p, f)
        /\ UNCHANGED <<changed, guard>>
     \/ LET b == is_guc_default(params[p].guc)
        IN /\ guard' = [guard EXCEPT ![p] = Text(b)]
           /\ IF b
              THEN /\ changed' = [changed EXCEPT ![p] = FALSE]
                   /\ exit_json(p, FALSE, FALSE)
                   /\ UNCHANGED raised
              ELSE /\ Goto(p, "do_guc_reset_execute")
                   /\ UNCHANGED changed
  /\ UNCHANGED <<default_value, params>>
  /\ ReadOnly

\* A wrong do_guc_reset: the statement is executed and False is returned.
do_guc_reset_execute_returns_false(p) ==
  /\ variant = "guc"
  /\ pc[p] = "do_guc_reset_execute"
  /\ Execute(p)
  /\ \E f \in Faults \cup {alter_system_reset_error(params[p].guc)} :
       IF f # ""
       THEN /\ main_except(p, f)
            /\ WriteFailed(p)
            /\ UNCHANGED changed
       ELSE /\ auto_conf' = alter_system_reset(params[p].guc)
            /\ changed' = [changed EXCEPT ![p] = FALSE]
            /\ exit_json(p, FALSE, FALSE)
            /\ Wrote(p)
            /\ UNCHANGED raised
  /\ UNCHANGED <<guard, default_value, params>>

\* do_guc_reset: cursor.execute(ALTER SYSTEM RESET guc); return True
do_guc_reset_execute(p) ==
  /\ variant = "guc"
  /\ pc[p] = "do_guc_reset_execute"
  /\ Execute(p)
  /\ \E f \in Faults \cup {alter_system_reset_error(params[p].guc)} :
       IF f # ""
       THEN /\ main_except(p, f)
            /\ WriteFailed(p)
            /\ UNCHANGED changed
       ELSE /\ auto_conf' = alter_system_reset(params[p].guc)
            /\ changed' = [changed EXCEPT ![p] = TRUE]
            /\ exit_json(p, TRUE, FALSE)
            /\ Wrote(p)
            /\ UNCHANGED raised
  /\ UNCHANGED <<guard, default_value, params>>

\* do_guc_set: if not guc_matches(cursor, guc, value): ... else: return False
do_guc_set(p) ==
  /\ variant = "guc"
  /\ pc[p] = "do_guc_set"
  /\ Execute(p)
  /\ \/ /\ \E f \in Faults \cup ({current_setting_error(params[p].guc)} \ {""}) :
             main_except(p, f)
        /\ UNCHANGED <<changed, guard>>
     \/ /\ current_setting_error(params[p].guc) = ""
        /\ LET b == guc_matches(params[p].guc, params[p].value)
           IN /\ guard' = [guard EXCEPT ![p] = Text(b)]
              /\ IF b
                 THEN /\ changed' = [changed EXCEPT ![p] = FALSE]
                      /\ exit_json(p, FALSE, FALSE)
                      /\ UNCHANGED raised
                 ELSE /\ Goto(p, "do_guc_set_execute")
                      /\ UNCHANGED changed
  /\ UNCHANGED <<default_value, params>>
  /\ ReadOnly

\* A wrong do_guc_set: a statement that fails is executed again.
do_guc_set_execute_retry(p) ==
  /\ variant = "guc"
  /\ pc[p] = "do_guc_set_execute"
  /\ Execute(p)
  /\ \E f \in Faults \cup {alter_system_set_error(params[p].guc, params[p].value)} :
       IF f # ""
       THEN /\ WriteFailed(p)
            /\ UNCHANGED <<pc, result, raised, changed>>
       ELSE /\ auto_conf' = alter_system_set(params[p].guc, params[p].value)
            /\ changed' = [changed EXCEPT ![p] = TRUE]
            /\ exit_json(p, TRUE, FALSE)
            /\ Wrote(p)
            /\ UNCHANGED raised
  /\ UNCHANGED <<guard, default_value, params>>

\* do_guc_set: cursor.execute(ALTER SYSTEM SET guc TO %s, (value,)); return True
do_guc_set_execute(p) ==
  /\ variant = "guc"
  /\ pc[p] = "do_guc_set_execute"
  /\ Execute(p)
  /\ \E f \in Faults \cup {alter_system_set_error(params[p].guc, params[p].value)} :
       IF f # ""
       THEN /\ main_except(p, f)
            /\ WriteFailed(p)
            /\ UNCHANGED changed
       ELSE /\ auto_conf' = alter_system_set(params[p].guc, params[p].value)
            /\ changed' = [changed EXCEPT ![p] = TRUE]
            /\ exit_json(p, TRUE, FALSE)
            /\ Wrote(p)
            /\ UNCHANGED raised
  /\ UNCHANGED <<guard, default_value, params>>

(**************** src/library/postgresql_setting.py: main ******************)

\* if option_ispreset(cursor, option): module.warn(...)
main_option_ispreset(p) ==
  /\ variant = "option"
  /\ pc[p] = "option_ispreset"
  /\ Execute(p)
  /\ \/ \E f \in Faults : main_except(p, f)
     \/ /\ option_ispreset(params[p].guc)
        /\ exit_json(p, changed[p], TRUE)
        /\ UNCHANGED raised
     \/ /\ ~option_ispreset(params[p].guc)
        /\ Goto(p, "option_exists")
  /\ UNCHANGED <<changed, guard, default_value, params>>
  /\ ReadOnly

\* elif option_exists(cursor, option): ... else: module.warn(...)
main_option_exists(p) ==
  /\ variant = "option"
  /\ pc[p] = "option_exists"
  /\ Execute(p)
  /\ \/ \E f \in Faults : main_except(p, f)
     \/ /\ option_exists(params[p].guc)
        /\ Goto(p, Dispatch(p, "option_check_mode", "option_reset", "option_set"))
     \/ /\ ~option_exists(params[p].guc)
        /\ exit_json(p, changed[p], TRUE)
        /\ UNCHANGED raised
  /\ UNCHANGED <<changed, guard, default_value, params>>
  /\ ReadOnly

\* if module.check_mode: changed = not <read>; module.exit_json(changed=changed)
main_option_check_mode(p) ==
  /\ variant = "option"
  /\ pc[p] = "option_check_mode"
  /\ Execute(p)
  /\ \/ /\ \E f \in Faults : main_except(p, f)
        /\ UNCHANGED <<changed, guard>>
     \/ LET g == params[p].guc
            b == IF params[p].state = "absent"
                 THEN option_isdefault(g) ELSE option_matches(g, params[p].value)
        IN /\ guard' = [guard EXCEPT ![p] = Text(b)]
           /\ changed' = [changed EXCEPT ![p] = check_mode_changed(b)]
           /\ exit_json(p, check_mode_changed(b), FALSE)
           /\ UNCHANGED raised
  /\ UNCHANGED <<default_value, params>>
  /\ ReadOnly

\* option_reset: if not option_isdefault(cursor, option): ... else: return False
option_reset(p) ==
  /\ variant = "option"
  /\ pc[p] = "option_reset"
  /\ Execute(p)
  /\ \/ /\ \E f \in Faults : main_except(p, f)
        /\ UNCHANGED <<changed, guard>>
     \/ LET b == option_isdefault(params[p].guc)
        IN /\ guard' = [guard EXCEPT ![p] = Text(b)]
           /\ IF b
              THEN /\ changed' = [changed EXCEPT ![p] = FALSE]
                   /\ exit_json(p, FALSE, FALSE)
                   /\ UNCHANGED raised
              ELSE /\ Goto(p, "option_reset_default")
                   /\ UNCHANGED changed
  /\ UNCHANGED <<default_value, params>>
  /\ ReadOnly

\* option_reset: the argument option_get_default_value(cursor, option)
option_reset_default(p) ==
  /\ variant = "option"
  /\ pc[p] = "option_reset_default"
  /\ Execute(p)
  /\ \/ /\ \E f \in Faults : main_except(p, f)
        /\ UNCHANGED default_value
     \/ /\ default_value' =
             [default_value EXCEPT ![p] = option_get_default_value(params[p].guc)]
        /\ Goto(p, "option_reset_execute")
  /\ UNCHANGED <<changed, guard, params>>
  /\ ReadOnly

\* option_reset: cursor.execute("ALTER SYSTEM SET %s TO %s" % (option, boot_val));
\* return True.  The default is written as an override, unquoted.
option_reset_execute(p) ==
  /\ variant = "option"
  /\ pc[p] = "option_reset_execute"
  /\ Execute(p)
  /\ \E f \in Faults \cup {alter_system_set_error(params[p].guc, default_value[p])} :
       IF f # ""
       THEN /\ main_except(p, f)
            /\ WriteFailed(p)
            /\ UNCHANGED changed
       ELSE /\ auto_conf' = alter_system_set(params[p].guc, default_value[p])
            /\ changed' = [changed EXCEPT ![p] = TRUE]
            /\ exit_json(p, TRUE, FALSE)
            /\ Wrote(p)
            /\ UNCHANGED raised
  /\ UNCHANGED <<guard, default_value, params>>

\* option_set: if not option_matches(cursor, option, value): ... else: return False
option_set(p) ==
  /\ variant = "option"
  /\ pc[p] = "option_set"
  /\ Execute(p)
  /\ \/ /\ \E f \in Faults \cup ({current_setting_error(params[p].guc)} \ {""}) :
             main_except(p, f)
        /\ UNCHANGED <<changed, guard>>
     \/ /\ current_setting_error(params[p].guc) = ""
        /\ LET b == option_matches(params[p].guc, params[p].value)
           IN /\ guard' = [guard EXCEPT ![p] = Text(b)]
              /\ IF b
                 THEN /\ changed' = [changed EXCEPT ![p] = FALSE]
                      /\ exit_json(p, FALSE, FALSE)
                      /\ UNCHANGED raised
                 ELSE /\ Goto(p, "option_set_execute")
                      /\ UNCHANGED changed
  /\ UNCHANGED <<default_value, params>>
  /\ ReadOnly

\* option_set: cursor.execute("ALTER SYSTEM SET %s TO '%s'" % (option, value));
\* return True
option_set_execute(p) ==
  /\ variant = "option"
  /\ pc[p] = "option_set_execute"
  /\ Execute(p)
  /\ \E f \in Faults \cup {alter_system_set_error(params[p].guc, params[p].value)} :
       IF f # ""
       THEN /\ main_except(p, f)
            /\ WriteFailed(p)
            /\ UNCHANGED changed
       ELSE /\ auto_conf' = alter_system_set(params[p].guc, params[p].value)
            /\ changed' = [changed EXCEPT ![p] = TRUE]
            /\ exit_json(p, TRUE, FALSE)
            /\ Wrote(p)
            /\ UNCHANGED raised
  /\ UNCHANGED <<guard, default_value, params>>

(***************************** the environment *****************************)

\* What is kept of a per-invocation variable when the server reloads: a run
\* that has ended is forgotten, since what it reported describes the instance
\* as it was before the reload.
AfterReload(f, init) == [p \in Procs |-> IF pc[p] = "done" THEN init ELSE f[p]]

\* The server reloads its configuration (pg_reload_conf, SIGHUP, restart):
\* "New values will be effective after the next server configuration reload".
reload_conf ==
  /\ reset_val' = [g \in Catalog |->
                     IF context[g] = "internal" THEN reset_val[g] ELSE Effective(g)]
  /\ reset_val' # reset_val
  /\ pc' = AfterReload(pc, "idle")
  /\ params' = AfterReload(params, NoParams)
  /\ changed' = AfterReload(changed, FALSE)
  /\ guard' = AfterReload(guard, "")
  /\ default_value' = AfterReload(default_value, "")
  /\ result' = AfterReload(result, NoResult)
  /\ stmts' = AfterReload(stmts, 0)
  /\ writes' = AfterReload(writes, 0)
  /\ raised' = AfterReload(raised, NoError)
  /\ mutated' = AfterReload(mutated, FALSE)
  /\ prev' = NoPrev
  /\ last_writer' = IF \E p \in Procs : pc[p] = "done" THEN NoWriter ELSE last_writer
  /\ raced' = (raced /\ \A p \in Procs : pc[p] # "done")
  /\ UNCHANGED <<variant, auto_conf>>

\* Concurrent invocations against one instance, and the server reloading.
Next ==
  \/ \E p \in Procs : Start(p)
  \/ \E p \in Procs : main_connect(p)
  \/ \E p \in Procs : main_is_guc_configurable(p)
  \/ \E p \in Procs : main_check_mode(p)
  \/ \E p \in Procs : do_guc_reset(p)
  \/ \E p \in Procs : do_guc_reset_execute(p)
  \/ \E p \in Procs : do_guc_set(p)
  \/ \E p \in Procs : do_guc_set_execute(p)
  \/ \E p \in Procs : main_option_ispreset(p)
  \/ \E p \in Procs : main_option_exists(p)
  \/ \E p \in Procs : main_option_check_mode(p)
  \/ \E p \in Procs : option_reset(p)
  \/ \E p \in Procs : option_reset_default(p)
  \/ \E p \in Procs : option_reset_execute(p)
  \/ \E p \in Procs : option_set(p)
  \/ \E p \in Procs : option_set_execute(p)
  \/ reload_conf

\* One host running the play, and running it again, and the server reloading.
Host == "host1"

NextSeq ==
  \/ Start(Host)
  \/ Rerun(Host)
  \/ main_connect(Host)
  \/ main_is_guc_configurable(Host)
  \/ main_check_mode(Host)
  \/ do_guc_reset(Host)
  \/ do_guc_reset_execute(Host)
  \/ do_guc_set(Host)
  \/ do_guc_set_execute(Host)
  \/ main_option_ispreset(Host)
  \/ main_option_exists(Host)
  \/ main_option_check_mode(Host)
  \/ option_reset(Host)
  \/ option_reset_default(Host)
  \/ option_reset_execute(Host)
  \/ option_set(Host)
  \/ option_set_execute(Host)
  \/ reload_conf

Spec == Init /\ [][Next]_vars

SpecSeq == Init /\ [][NextSeq]_vars

(******************************* properties ********************************)

Done(p) == pc[p] = "done"

\* The parameter has no row, or its row has context 'internal'.
NonConfigurable(g) == g \notin Catalog \/ context[g] = "internal"

\* The run ended in module.exit_json, in normal (not check) mode.
Applied(p) == Done(p) /\ result[p].rc = "exit" /\ ~params[p].check_mode

\* The entry p's ALTER SYSTEM asks postgresql.auto.conf to hold for its row.
Intended(p) ==
  IF params[p].state = "present" THEN params[p].value
  ELSE IF variant = "guc" THEN NoOverride ELSE boot_val[params[p].guc]

\* The run of Host repeats, with nothing in between, a run that ended in
\* module.exit_json.
Repeats(check) == Done(Host) /\ prev.rc = "exit" /\ prev.check_mode = check

\* C1 (as claimed): the second of two successive normal runs with the same
\* guc, state and value, with nothing between them, reports changed=false.
C1_Idempotence ==
  (Repeats(FALSE) /\ Applied(Host)) => ~result[Host].changed

\* C2 (as claimed): a run on a parameter that is not configurable, once
\* connected, issues no ALTER SYSTEM and ends in exit_json with changed=false
\* and a warning, never in fail_json.
C2_NonConfigurableNeverFails ==
  \A p \in Procs :
    NonConfigurable(params[p].guc) =>
      /\ writes[p] = 0
      /\ (Done(p) /\ stmts[p] > 0) =>
           (result[p].rc = "exit" /\ ~result[p].changed /\ result[p].warned)

\* C2 (amended): a run on a parameter that is not configurable issues no
\* ALTER SYSTEM and leaves the instance as it is; it ends in exit_json with
\* changed=false and a warning unless one of its own catalog reads raises, and
\* then it ends in fail_json.
C2_NonConfigurableGuard ==
  \A p \in Procs :
    NonConfigurable(params[p].guc) =>
      /\ writes[p] = 0
      /\ ~mutated[p]
      /\ pc[p] \notin WriteSteps
      /\ (Done(p) /\ stmts[p] > 0 /\ raised[p] = NoError) =>
           (result[p].rc = "exit" /\ ~result[p].changed /\ result[p].warned)
      /\ (Done(p) /\ raised[p] # NoError) =>
           (result[p].rc = "fail" /\ raised[p].text \in Faults)

C2_Witness ==
  \E p \in Procs :
    /\ Done(p) /\ params[p].guc = "block_size" /\ params[p].state = "present"
    /\ ~params[p].check_mode /\ stmts[p] > 0
    /\ result[p].rc = "exit" /\ result[p].warned /\ ~result[p].changed

C4_AtMostOneWrite == \A p \in Procs : writes[p] <= 1

C4_Witness ==
  \E p \in Procs :
    /\ Done(p) /\ result[p].rc = "fail" /\ writes[p] = 1
    /\ raised[p].text = "invalid value for parameter"

\* C5: a check-mode run executes the configurability reads and then one
\* comparison, issues no ALTER SYSTEM and leaves the instance as it is; when
\* it ends in exit_json for a configurable parameter it reports changed as
\* the negation of what the comparison returned.
C5_DryRunWritesNothing ==
  \A p \in Procs :
    params[p].check_mode =>
      /\ writes[p] = 0
      /\ ~mutated[p]
      /\ pc[p] \in {"idle", "connect", "is_guc_configurable", "check_mode",
                    "option_ispreset", "option_exists", "option_check_mode", "done"}
      /\ stmts[p] <= (IF variant = "guc" THEN 2 ELSE 3)
      /\ (Done(p) /\ result[p].rc = "exit" /\ ~NonConfigurable(params[p].guc)) =>
           /\ guard[p] # ""
           /\ result[p].changed = (guard[p] = "false")

C5_Witness ==
  \E p \in Procs :
    /\ Done(p) /\ params[p].check_mode /\ result[p].rc = "exit"
    /\ result[p].changed /\ writes[p] = 0 /\ guard[p] = "false"

\* C6 (as claimed): after a normal run with state=present that found the value
\* not matching and ended in exit_json, changed=true was reported and
\* current_setting(guc) = value holds.
C6_SetCorrectness ==
  (Applied(Host) /\ params[Host].state = "present" /\ guard[Host] = "false") =>
     /\ result[Host].changed
     /\ guc_matches(params[Host].guc, params[Host].value)

\* C7 (as claimed): after a normal run with state=absent that found reset_val
\* different from boot_val and ended in exit_json, changed=true was reported
\* and the row's reset_val equals its boot_val.
C7_ResetCorrectness ==
  (Applied(Host) /\ params[Host].state = "absent" /\ guard[Host] = "false") =>
     /\ result[Host].changed
     /\ reset_val[params[Host].guc] = boot_val[params[Host].guc]

\* C8: a run one of whose statements raised has ended in fail_json with the
\* exception's text in msg, and the statement that raised is the last one the
\* run executed.
C8_FailureSemantics ==
  \A p \in Procs :
    raised[p] # NoError =>
      /\ Done(p)
      /\ result[p].rc = "fail"
      /\ result[p].msg = <<"Database query failed", raised[p].text>>
      /\ stmts[p] = raised[p].at
      /\ writes[p] <= 1

C8_Witness ==
  \E p \in Procs :
    /\ Done(p) /\ result[p].rc = "fail" /\ stmts[p] > 0
    /\ raised[p].text \in Faults /\ writes[p] = 0 /\ guard[p] = "false"

\* C9: a normal run that ended in exit_json reports changed=true exactly when
\* it issued its one ALTER SYSTEM, which is exactly when its comparison
\* returned false; when the comparison returned true, or was never reached,
\* the run left the instance as it was and reported changed=false.
C9_ChangedIffWritten ==
  \A p \in Procs :
    Applied(p) =>
      /\ result[p].changed = (writes[p] = 1)
      /\ (writes[p] = 1) = (guard[p] = "false")
      /\ (guard[p] # "false") => (~mutated[p] /\ writes[p] = 0 /\ ~result[p].changed)
      /\ (guard[p] = "") = NonConfigurable(params[p].guc)

C9_Witness ==
  \E p \in Procs :
    /\ Applied(p) /\ params[p].state = "absent"
    /\ result[p].changed /\ writes[p] = 1 /\ guard[p] = "false" /\ mutated[p]

\* C10: nothing serialises two runs on the same parameter; each still issues
\* at most one ALTER SYSTEM, two runs that both passed their comparison before
\* either wrote both write and both report changed=true, and the entry of
\* postgresql.auto.conf is the one the last ALTER SYSTEM asked for.
C10_LastWriteWins ==
  /\ \A p \in Procs : writes[p] <= 1
  /\ last_writer # NoWriter =>
       auto_conf[params[last_writer].guc] = Intended(last_writer)
  /\ (raced /\ \A p \in Procs : Done(p) /\ result[p].rc = "exit") =>
       \A p \in Procs : writes[p] = 1 /\ result[p].changed

C10_Witness ==
  /\ raced
  /\ \A p \in Procs : Applied(p) /\ writes[p] = 1 /\ guard[p] = "false"
  /\ \E p, q \in Procs :
       /\ params[p].guc = params[q].guc
       /\ Intended(p) # Intended(q)
       /\ last_writer = q
       /\ auto_conf[params[q].guc] = Intended(q)

====
